---- MODULE Spec2Model ----
(***************************************************************************)
(* Model of the /api/etf serverless handler (src/api/etf.js).              *)
(*                                                                         *)
(* One behaviour is one invocation of the handler: the request is parsed,  *)
(* one MoneyDJ page fetch per code runs concurrently (Promise.all), the    *)
(* batched TWSE realtime fetch is awaited, and one JSON document is sent.  *)
(* Every action is one turn of the JavaScript event loop: the arrival of   *)
(* a network event together with all the synchronous code (and promise     *)
(* continuations) that runs because of it.                                 *)
(*                                                                         *)
(* Representation.  Strings that the code takes apart (the query string,   *)
(* the regex captures, the TWSE quote fields) are sequences of one-        *)
(* character strings.  A number the handler holds (a parsed decimal of at  *)
(* most two fraction digits, or a result of round2) is named by its count  *)
(* of hundredths: 10300 is the double nearest to 103.00, 204 the double    *)
(* nearest to 2.04.  A nullable number is <<>> (null / NaN) or <<v>>.      *)
(* The arithmetic in between (the subtraction, division, multiplications   *)
(* and Math.round of lines 34, 69, 106 and 113) is IEEE 754 binary64       *)
(* arithmetic, rounding included: 200.01 on a NAV of 200.00 is a premium   *)
(* of 0, not 0.01, and -15.94 is more than 1 away from -16.94.  navDate    *)
(* and moneydjUrl are copied through by the code and read by nothing;      *)
(* they are left out.                                                      *)
(*                                                                         *)
(* src/unnamed/part_000 is an earlier revision of the same handler (no     *)
(* divergence rule, premiumFrom always "MoneyDJ (parsed)"); the deployed   *)
(* function src/api/etf.js is what is modelled.                            *)
(***************************************************************************)
EXTENDS Integers, Sequences, FiniteSets, TLC

VARIABLES
    pc,            \* handler position: "idle", "awaitAll", "awaitOverlay", "done"
    query,         \* req.query of the invocation
    codes,         \* const codes (line 11)
    fetchState,    \* per code: state of the promise fetchFromMoneyDJ(code)
    pages,         \* per code: what the regexes captured from the page received
    base,          \* per code: the record fetchFromMoneyDJ returned
    items,         \* per code: the record as the handler holds (and mutates) it
    errors,        \* per code: the Error a rejected fetch threw
    primaryCalls,  \* number of fetch() calls issued to MoneyDJ
    twseCalls,     \* number of fetch() calls issued to TWSE
    twseState,     \* "none", "pending", "ok", "failed"
    twsePriceMap,  \* const twsePriceMap (line 24), once resolved
    responses      \* documents sent with res.status(..).json(..), in order

vars == <<pc, query, codes, fetchState, pages, base, items, errors,
          primaryCalls, twseCalls, twseState, twsePriceMap, responses>>

\* Longest raw query string explored.
MaxLen == 3

-----------------------------------------------------------------------------
\* Values

Null == <<>>
NullLabel == "null"

Chars == {",", " ", "a", "B"}

Digits == {"0", "1", "2", "3", "4", "5", "6", "7", "8", "9"}

DigitVal(c) ==
    CASE c = "0" -> 0 [] c = "1" -> 1 [] c = "2" -> 2 [] c = "3" -> 3
      [] c = "4" -> 4 [] c = "5" -> 5 [] c = "6" -> 6 [] c = "7" -> 7
      [] c = "8" -> 8 [] c = "9" -> 9

Range(s) == {s[i] : i \in DOMAIN s}

-----------------------------------------------------------------------------
\* String primitives

\* String.prototype.toUpperCase, one character.
UpperChar(c) ==
    CASE c = "a" -> "A" [] c = "b" -> "B" [] c = "z" -> "Z" [] OTHER -> c

toUpperCase(s) == [i \in DOMAIN s |-> UpperChar(s[i])]

LowerChar(c) ==
    CASE c = "A" -> "a" [] c = "B" -> "b" [] c = "Z" -> "z" [] OTHER -> c

toLowerCase(s) == [i \in DOMAIN s |-> LowerChar(s[i])]

IsSpace(c) == c = " "

RECURSIVE trimStart(_)
trimStart(s) ==
    IF s # <<>> /\ IsSpace(Head(s)) THEN trimStart(Tail(s)) ELSE s

RECURSIVE trimEnd(_)
trimEnd(s) ==
    IF s # <<>> /\ IsSpace(s[Len(s)])
    THEN trimEnd(SubSeq(s, 1, Len(s) - 1))
    ELSE s

\* String.prototype.trim
trim(s) == trimEnd(trimStart(s))

\* String.prototype.split(","): "" splits into [""].
RECURSIVE split(_)
split(s) ==
    IF \E i \in DOMAIN s : s[i] = ","
    THEN LET i == CHOOSE k \in DOMAIN s :
                      s[k] = "," /\ \A j \in 1..(k - 1) : s[j] # ","
         IN  <<SubSeq(s, 1, i - 1)>> \o split(SubSeq(s, i + 1, Len(s)))
    ELSE <<s>>

\* Array.prototype.filter(Boolean) on strings: drops the empty ones.
filterBoolean(toks) == SelectSeq(toks, LAMBDA t : t # <<>>)

\* (req.query.codes || "").toString().trim()
codesRawOf(q) == IF q.has THEN trim(q.val) ELSE <<>>

\* Faulty variant: the empty tokens are kept.
ParseCodesUnfiltered(q) ==
    LET toks == split(codesRawOf(q))
    IN  [i \in DOMAIN toks |-> toUpperCase(trim(toks[i]))]

\* Lines 10-14: codesRaw.split(",").map(trim, toUpperCase).filter(Boolean)
ParseCodes(q) ==
    LET toks == split(codesRawOf(q))
    IN  filterBoolean([i \in DOMAIN toks |-> toUpperCase(trim(toks[i]))])

-----------------------------------------------------------------------------
\* Numbers

\* First index >= i of s that holds no digit.
RECURSIVE DigitsEnd(_, _)
DigitsEnd(s, i) ==
    IF i <= Len(s) /\ s[i] \in Digits THEN DigitsEnd(s, i + 1) ELSE i

\* Value of the digits s[i..j].
RECURSIVE DigitsValue(_, _, _)
DigitsValue(s, i, j) ==
    IF j < i THEN 0 ELSE DigitsValue(s, i, j - 1) * 10 + DigitVal(s[j])

\* parseFloat: optional sign, digits, optional fraction; the longest numeric
\* prefix is read and NaN (Null) is the result when there is none.
parseFloat(s) ==
    LET signed == s # <<>> /\ s[1] \in {"+", "-"}
        start  == IF signed THEN 2 ELSE 1
        iEnd   == DigitsEnd(s, start)
        hasDot == iEnd <= Len(s) /\ s[iEnd] = "."
        fEnd   == IF hasDot THEN DigitsEnd(s, iEnd + 1) ELSE iEnd
        f1     == IF fEnd > iEnd + 1 THEN DigitVal(s[iEnd + 1]) ELSE 0
        f2     == IF fEnd > iEnd + 2 THEN DigitVal(s[iEnd + 2]) ELSE 0
        mag    == DigitsValue(s, start, iEnd - 1) * 100 + f1 * 10 + f2
    IN  IF iEnd = start /\ fEnd <= iEnd + 1
        THEN Null
        ELSE <<IF signed /\ s[1] = "-" THEN -mag ELSE mag>>

\* pickNumber(text, re): m is the capture m[1], or NoMatch.
NoMatch == <<>>

pickNumber(m) == IF m = NoMatch THEN Null ELSE parseFloat(m)

-----------------------------------------------------------------------------
\* Natural numbers of any size: sequences of limbs, least significant first,
\* without leading zero limbs.  They carry the 53-bit significands (and the
\* wider intermediate results) of the code's IEEE 754 doubles.

Base == 2 ^ 15

LimbBits == 15

BOne == <<1>>

Limb(a, i) == IF i <= Len(a) THEN a[i] ELSE 0

RECURSIVE BNorm(_)
BNorm(a) ==
    IF a # <<>> /\ a[Len(a)] = 0 THEN BNorm(SubSeq(a, 1, Len(a) - 1)) ELSE a

RECURSIVE BFromInt(_)
BFromInt(n) == IF n = 0 THEN <<>> ELSE <<n % Base>> \o BFromInt(n \div Base)

RECURSIVE BToInt(_)
BToInt(a) == IF a = <<>> THEN 0 ELSE a[1] + Base * BToInt(Tail(a))

\* -1, 0 or 1 as a < b, a = b or a > b.
BCmp(a, b) ==
    IF Len(a) # Len(b) THEN (IF Len(a) < Len(b) THEN -1 ELSE 1)
    ELSE IF a = b THEN 0
    ELSE LET k == CHOOSE i \in DOMAIN a :
                      a[i] # b[i] /\ \A j \in (i + 1)..Len(a) : a[j] = b[j]
         IN  IF a[k] < b[k] THEN -1 ELSE 1

RECURSIVE BAddFrom(_, _, _, _)
BAddFrom(a, b, i, carry) ==
    IF i > Len(a) /\ i > Len(b)
    THEN (IF carry = 0 THEN <<>> ELSE <<carry>>)
    ELSE LET t == Limb(a, i) + Limb(b, i) + carry
         IN  <<t % Base>> \o BAddFrom(a, b, i + 1, t \div Base)

BAdd(a, b) == BAddFrom(a, b, 1, 0)

RECURSIVE BSubFrom(_, _, _, _)
BSubFrom(a, b, i, borrow) ==
    IF i > Len(a) THEN <<>>
    ELSE LET t == a[i] - Limb(b, i) - borrow
         IN  IF t < 0
             THEN <<t + Base>> \o BSubFrom(a, b, i + 1, 1)
             ELSE <<t>> \o BSubFrom(a, b, i + 1, 0)

\* a - b for a >= b.
BSub(a, b) == BNorm(BSubFrom(a, b, 1, 0))

RECURSIVE BMulFrom(_, _, _, _)
BMulFrom(a, k, i, carry) ==
    IF i > Len(a) THEN (IF carry = 0 THEN <<>> ELSE <<carry>>)
    ELSE LET t == a[i] * k + carry
         IN  <<t % Base>> \o BMulFrom(a, k, i + 1, t \div Base)

\* a * k for 0 < k <= Base.
BMulSmall(a, k) == BMulFrom(a, k, 1, 0)

\* Quotient and remainder of the limbs 1..i of a, below the remainder r of
\* the higher ones, by k.
RECURSIVE BDivFrom(_, _, _, _)
BDivFrom(a, k, i, r) ==
    IF i = 0 THEN [q |-> <<>>, r |-> r]
    ELSE LET cur  == r * Base + a[i]
             rest == BDivFrom(a, k, i - 1, cur % k)
         IN  [q |-> Append(rest.q, cur \div k), r |-> rest.r]

\* floor(a / k), 0 < k <= Base.
BDivSmall(a, k) == BNorm(BDivFrom(a, k, Len(a), 0).q)

\* a * 2^s
BShl(a, s) ==
    IF a = <<>> THEN <<>>
    ELSE BMulSmall([i \in 1..(s \div LimbBits) |-> 0] \o a,
                   2 ^ (s % LimbBits))

\* floor(a / 2^s)
BShr(a, s) ==
    IF s \div LimbBits >= Len(a) THEN <<>>
    ELSE BDivSmall(SubSeq(a, s \div LimbBits + 1, Len(a)),
                   2 ^ (s % LimbBits))

\* Number of bits of a.
BBitLen(a) ==
    IF a = <<>> THEN 0
    ELSE (Len(a) - 1) * LimbBits
         + (CHOOSE k \in 1..LimbBits :
               2 ^ (k - 1) <= a[Len(a)] /\ a[Len(a)] < 2 ^ k)

\* Bit i (from 1, least significant) of a.
BBit(a, i) ==
    (Limb(a, (i - 1) \div LimbBits + 1) \div 2 ^ ((i - 1) % LimbBits)) % 2

\* Long division by b, one bit: r2 is the remainder with the next bit of the
\* dividend brought down, q the quotient so far.
BDivPut(b, q, r2) ==
    IF BCmp(r2, b) >= 0
    THEN [q |-> BAdd(BAdd(q, q), BOne), r |-> BSub(r2, b)]
    ELSE [q |-> BAdd(q, q), r |-> r2]

\* Bit i of a is brought down to the quotient and remainder so far.
BDivBit(a, b, i, st) ==
    BDivPut(b, st.q, BAdd(BAdd(st.r, st.r), BFromInt(BBit(a, i))))

\* The bits hi down to lo of a are brought down, the upper half first.
RECURSIVE BDivRange(_, _, _, _, _)
BDivRange(a, b, hi, lo, st) ==
    IF hi < lo THEN st
    ELSE IF hi = lo THEN BDivBit(a, b, hi, st)
    ELSE LET mid   == (hi + lo + 1) \div 2
             upper == BDivRange(a, b, hi, mid, st)
         IN  IF upper.q = <<>> /\ upper.r = <<>>
             THEN BDivRange(a, b, mid - 1, lo, [q |-> <<>>, r |-> <<>>])
             ELSE BDivRange(a, b, mid - 1, lo, upper)

\* a divided by b, b > 0: [q, r].
BDiv(a, b) == BDivRange(a, b, BBitLen(a), 1, [q |-> <<>>, r |-> <<>>])

-----------------------------------------------------------------------------
\* IEEE 754 doubles (binary64), as the code's arithmetic produces them:
\* [s, m, e] is s * m * 2^e with s = 1 or -1 and 2^52 <= m < 2^53, or zero
\* (m = 0; the sign of zero is not kept, nothing in the handler tells -0
\* from 0).  Every operation rounds its exact result to nearest, ties to
\* even.  Overflow and subnormals are out of the range of prices.

Precision == 53

DZero == [s |-> 1, m |-> <<>>, e |-> 0]

\* A significand q that rounding up has brought to 2^53 is 2^52 again.
Renorm(s, q, e) ==
    IF BBitLen(q) > Precision
    THEN [s |-> s, m |-> BShr(q, 1), e |-> e + 1]
    ELSE [s |-> s, m |-> q, e |-> e]

\* q is n without its sh lowest bits, which compare as c (-1, 0, 1) with
\* one half of a unit of q: to nearest, ties to even.
RoundUp(s, q, e, c, sticky) ==
    Renorm(s,
           IF c > 0 \/ (c = 0 /\ (sticky \/ BBit(q, 1) = 1))
           THEN BAdd(q, BOne) ELSE q,
           e)

RoundCut(s, n, e, sticky, sh, q) ==
    RoundUp(s, q, e + sh,
            BCmp(BSub(n, BShl(q, sh)), BShl(BOne, sh - 1)), sticky)

RoundBits(s, n, e, sticky, len) ==
    IF len <= Precision
    THEN [s |-> s, m |-> BShl(n, Precision - len), e |-> e - (Precision - len)]
    ELSE RoundCut(s, n, e, sticky, len - Precision, BShr(n, len - Precision))

\* The double nearest to s * (n + f) * 2^e, where 0 < f < 1 if sticky and
\* f = 0 if not; with sticky, n has more than Precision + 1 bits.
RoundD(s, n, e, sticky) ==
    IF n = <<>> THEN DZero ELSE RoundBits(s, n, e, sticky, BBitLen(n))

\* The double nearest to s * (a / b) * 2^e, d being BDiv(a * 2^64, b).
RoundQuotient(s, d, e) == RoundD(s, d.q, e - 64, d.r # <<>>)

\* The double that parseFloat gives for the decimal h / 100, and that the
\* final division of round2 gives for the integer h.
ToDouble(h) ==
    IF h = 0 THEN DZero
    ELSE RoundQuotient(IF h < 0 THEN -1 ELSE 1,
                       BDiv(BShl(BFromInt(IF h < 0 THEN -h ELSE h), 64),
                            BFromInt(100)),
                       0)

\* xs * xm * 2^e - ys * ym * 2^e
FSubAligned(xs, ys, xm, ym, e) ==
    RoundD(IF xs # ys \/ BCmp(xm, ym) >= 0 THEN xs ELSE -xs,
           IF xs # ys THEN BAdd(xm, ym)
           ELSE IF BCmp(xm, ym) >= 0 THEN BSub(xm, ym) ELSE BSub(ym, xm),
           e, FALSE)

\* x - y
FSub(x, y) ==
    IF y.m = <<>> THEN x
    ELSE IF x.m = <<>> THEN [y EXCEPT !.s = -y.s]
    ELSE IF x.e < y.e
         THEN FSubAligned(x.s, y.s, x.m, BShl(y.m, y.e - x.e), x.e)
         ELSE FSubAligned(x.s, y.s, BShl(x.m, x.e - y.e), y.m, y.e)

\* x / y, y not zero
FDiv(x, y) ==
    IF x.m = <<>> THEN DZero
    ELSE RoundQuotient(x.s * y.s, BDiv(BShl(x.m, 64), y.m), x.e - y.e)

\* x * 100
FMul100(x) == RoundD(x.s, BMulSmall(x.m, 100), x.e, FALSE)

\* floor(s * m / 2^t + 1/2), half being 2^(t-1).
RoundHalfUp(s, m, t, half) ==
    IF s = 1 THEN BToInt(BShr(BAdd(m, half), t))
    ELSE IF BCmp(m, half) <= 0 THEN 0
    ELSE -BToInt(BShr(BAdd(BSub(m, half), BSub(BAdd(half, half), BOne)), t))

\* Math.round(x): the integer nearest to x, halves toward plus infinity.
MathRound(x) ==
    IF x.m = <<>> THEN 0
    ELSE IF x.e >= 0 THEN x.s * BToInt(BShl(x.m, x.e))
    ELSE RoundHalfUp(x.s, x.m, -x.e, BShl(BOne, -x.e - 1))

\* Math.abs(x) > 1
AbsAboveOne(x) ==
    /\ x.m # <<>>
    /\ \/ x.e > 1 - Precision
       \/ x.e = 1 - Precision /\ BCmp(x.m, BShl(BOne, Precision - 1)) > 0

\* round2(n) = Math.round(n * 100) / 100 (lines 68-70), the result counted
\* in hundredths.
round2(n) == MathRound(FMul100(n))

\* round2(((price - nav) / nav) * 100) (lines 34 and 106), price and nav in
\* hundredths, nav not zero.
PremiumOfDoubles(price, nav) ==
    round2(FMul100(FDiv(FSub(ToDouble(price), ToDouble(nav)), ToDouble(nav))))

\* Math.abs(a - b) > 1 (line 113), a and b in hundredths.
DivergesDoubles(a, b) == AbsAboveOne(FSub(ToDouble(a), ToDouble(b)))

-----------------------------------------------------------------------------
\* The inputs explored

\* What the price, NAV and premium patterns (lines 93, 94, 102) capture from
\* the normalised page text: the matched numeric substring, or NoMatch.
\* On a price of 166.12 and a NAV of 200.00 the computed premium is -16.94;
\* the premiums shown are that value, -17.94 and -15.94 (both 1.00 away from
\* it on paper; the doubles differ by exactly 1 and by more than 1), and 3.04.
PriceTexts == {NoMatch, <<"1", "6", "6", ".", "1", "2">>}

NavTexts == {NoMatch, <<"0">>, <<"2", "0", "0", ".", "0", "0">>}

PremiumTexts == {NoMatch,
                 <<"-", "1", "6", ".", "9", "4">>,
                 <<"-", "1", "7", ".", "9", "4">>,
                 <<"-", "1", "5", ".", "9", "4">>,
                 <<"3", ".", "0", "4">>}

\* Text of the z (last price) and pz (previous close) fields of one quote.
\* On a NAV of 200.00, 200.01 is a premium of 0.005 on paper and of 0 in
\* doubles; 199.75 is a premium of -0.125, rounded to -0.12.
QuoteTexts == {<<<<"2", "0", "0", ".", "0", "1">>,
                 <<"1", "9", "9", ".", "7", "5">>>>,
               <<<<"-">>, <<"1", "9", "9", ".", "7", "5">>>>,
               <<<<"-">>, <<"-">>>>}

\* The numbers these texts parse to.
PriceValues ==
    {pickNumber(t)[1] : t \in PriceTexts \ {NoMatch}}
    \cup {parseFloat(t)[1] :
             t \in {u \in {q[1] : q \in QuoteTexts} \cup {q[2] : q \in QuoteTexts} :
                       parseFloat(u) # Null}}

NavValues == {pickNumber(t)[1] : t \in NavTexts \ {NoMatch}} \ {0}

PremiumValues == {pickNumber(t)[1] : t \in PremiumTexts \ {NoMatch}}

\* The arithmetic on the numbers explored, worked out once: the triples
\* <<price, nav, round2(((price - nav) / nav) * 100)>> and the triples
\* <<a, b, Math.abs(a - b) > 1>>.
KnownPremiums ==
    {<<pn[1], pn[2], PremiumOfDoubles(pn[1], pn[2])>> :
        pn \in PriceValues \X NavValues}

KnownDivergences ==
    {<<ab[1], ab[2], DivergesDoubles(ab[1], ab[2])>> :
        ab \in PremiumValues \X {t[3] : t \in KnownPremiums}}

\* round2(((price - nav) / nav) * 100), in hundredths.
PremiumOf(price, nav) ==
    IF \E t \in KnownPremiums : t[1] = price /\ t[2] = nav
    THEN (CHOOSE t \in KnownPremiums : t[1] = price /\ t[2] = nav)[3]
    ELSE PremiumOfDoubles(price, nav)

\* Math.abs(a - b) > 1
Diverges(a, b) ==
    IF \E t \in KnownDivergences : t[1] = a /\ t[2] = b
    THEN (CHOOSE t \in KnownDivergences : t[1] = a /\ t[2] = b)[3]
    ELSE DivergesDoubles(a, b)

-----------------------------------------------------------------------------
\* The primary source (MoneyDJ): one page per code

MoneyDJ == "MoneyDJ"
TwseRealtime == "TWSE realtime"
Computed == "Computed from MoneyDJ price & NAV"
Parsed == "MoneyDJ (parsed)"
TwseVsNav == "TWSE realtime price vs MoneyDJ NAV"
FailedNote == "TWSE realtime price fetch failed; using MoneyDJ price."

Pages == [price : PriceTexts, nav : NavTexts, premium : PremiumTexts]

NoPage == [price |-> NoMatch, nav |-> NoMatch, premium |-> NoMatch]

NoItem == [code |-> <<>>, nav |-> Null, price |-> Null, priceFrom |-> NullLabel,
           premiumPct |-> Null, premiumFrom |-> NullLabel,
           realtimePriceNote |-> NullLabel]

\* Lines 104-107.
calcPremiumOf(mdPrice, nav) ==
    IF mdPrice # Null /\ nav # Null /\ nav[1] # 0
    THEN <<PremiumOf(mdPrice[1], nav[1])>>
    ELSE Null

\* Faulty variant: the earlier revision's reconciliation (computes only when nothing
\* was parsed, never distrusts the parsed value, one label).
fetchFromMoneyDJNoDivergence(code, page) ==
    LET mdPrice == pickNumber(page.price)
        nav     == pickNumber(page.nav)
        parsed  == pickNumber(page.premium)
        calc    == calcPremiumOf(mdPrice, nav)
        p1      == IF parsed = Null /\ calc # Null THEN calc ELSE parsed
    IN  [code |-> code, nav |-> nav, price |-> mdPrice,
         priceFrom |-> IF mdPrice # Null THEN MoneyDJ ELSE NullLabel,
         premiumPct |-> p1,
         premiumFrom |-> IF p1 = Null THEN NullLabel ELSE Parsed,
         realtimePriceNote |-> NullLabel]

\* Lines 109-115: the parsed premium, replaced by the computed one when it is
\* missing or diverges from it.
reconcile(parsed, calc) ==
    IF calc = Null THEN parsed
    ELSE IF parsed = Null THEN calc
    ELSE IF Diverges(parsed[1], calc[1]) THEN calc ELSE parsed

\* Lines 117-131: the record, its premium labelled by comparison with the
\* computed one (line 126).
itemOf(code, mdPrice, nav, premiumPct, calc) ==
    [code |-> code, nav |-> nav, price |-> mdPrice,
     priceFrom |-> IF mdPrice # Null THEN MoneyDJ ELSE NullLabel,
     premiumPct |-> premiumPct,
     premiumFrom |-> IF premiumPct # Null
                     THEN (IF premiumPct = calc THEN Computed ELSE Parsed)
                     ELSE NullLabel,
     realtimePriceNote |-> NullLabel]

\* Lines 104-131, from the three numbers read off the page.
itemFrom(code, mdPrice, nav, parsed, calc) ==
    itemOf(code, mdPrice, nav, reconcile(parsed, calc), calc)

\* Faulty variant: a missing NAV is reported as 0 instead of null.
fetchFromMoneyDJNavZero(code, page) ==
    LET mdPrice == pickNumber(page.price)
        nav     == pickNumber(page.nav)
    IN  [itemFrom(code, mdPrice, nav, pickNumber(page.premium),
                  calcPremiumOf(mdPrice, nav))
           EXCEPT !.nav = IF @ # Null THEN @ ELSE <<0>>]

\* Lines 93-131: the record built from one page.
fetchFromMoneyDJ(code, page) ==
    LET mdPrice == pickNumber(page.price)
        nav     == pickNumber(page.nav)
    IN  itemFrom(code, mdPrice, nav, pickNumber(page.premium),
                 calcPremiumOf(mdPrice, nav))

\* Errors a page fetch ends in: fetch() itself rejecting (network), and the
\* Error thrown at line 146 for a response that is not ok.
FetchErrors == {"fetch failed", "MoneyDJ fetch failed: 404 Not Found"}

\* r.text() rejecting while the body is read (line 148).
BodyErrors == {"terminated"}

-----------------------------------------------------------------------------
\* The secondary source (TWSE): one batched quote request

Absent == [present |-> FALSE, lower |-> FALSE, z |-> <<>>, pz |-> <<>>]

QuoteOptions ==
    {Absent} \cup
    {[present |-> TRUE, lower |-> l, z |-> q[1], pz |-> q[2]] :
        l \in BOOLEAN, q \in QuoteTexts}

\* The msgArray that answers with f[c] for each requested code c, in the
\* order of the request.
RECURSIVE MsgArrayFor(_, _, _)
MsgArrayFor(cs, f, seen) ==
    IF cs = <<>> THEN <<>>
    ELSE LET c == Head(cs)
         IN  IF c \in seen \/ ~f[c].present
             THEN MsgArrayFor(Tail(cs), f, seen \cup {c})
             ELSE <<[c |-> IF f[c].lower THEN toLowerCase(c) ELSE c,
                     z |-> f[c].z, pz |-> f[c].pz]>>
                  \o MsgArrayFor(Tail(cs), f, seen \cup {c})

\* The JSON bodies TWSE may answer a request for cs with: an envelope with
\* no msgArray, or one quote (or none) per requested code.
TwseReplies(cs) ==
    {[rtmessage |-> "Empty Query."]} \cup
    {[msgArray |-> MsgArrayFor(cs, f, {})] : f \in [Range(cs) -> QuoteOptions]}

\* Errors the batched fetch ends in: fetch() rejecting, line 179, r.json().
TwseErrors == {"fetch failed",
               "TWSE realtime fetch failed: 500 Internal Server Error",
               "Unexpected token < in JSON at position 0"}

Put(map, k, v) == [x \in DOMAIN map \cup {k} |-> IF x = k THEN v ELSE map[x]]

EmptyMap == <<>>

\* Lines 186-192, over the rest of the array.
RECURSIVE BuildMap(_, _)
BuildMap(arr, map) ==
    IF arr = <<>> THEN map
    ELSE LET it    == Head(arr)
             code  == toUpperCase(it.c)
             z     == parseFloat(it.z)
             pz    == parseFloat(it.pz)
             price == IF z # Null THEN z ELSE IF pz # Null THEN pz ELSE Null
         IN  BuildMap(Tail(arr),
                      IF code # <<>> /\ price # Null
                      THEN Put(map, code, price[1])
                      ELSE map)

\* Lines 182-194: the map built from the JSON body j.
fetchTwseRealtimePrices(j) ==
    BuildMap(IF "msgArray" \in DOMAIN j THEN j.msgArray ELSE <<>>, EmptyMap)

\* Faulty variant: the realtime price is adopted but the premium is left as it was.
OverlayItemStalePremium(it, map) ==
    IF it.code \in DOMAIN map
    THEN [it EXCEPT !.price = <<map[it.code]>>, !.priceFrom = TwseRealtime]
    ELSE [it EXCEPT !.priceFrom = IF @ # NullLabel THEN @ ELSE MoneyDJ]

\* Faulty variant: the recomputation is skipped when the page's own premium was kept.
OverlayItemKeepParsed(it, map) ==
    IF it.code \in DOMAIN map
    THEN LET rt == map[it.code]
         IN  IF it.nav # Null /\ it.nav[1] # 0 /\ it.premiumFrom # Parsed
             THEN [it EXCEPT !.price = <<rt>>, !.priceFrom = TwseRealtime,
                             !.premiumPct = <<PremiumOf(rt, it.nav[1])>>,
                             !.premiumFrom = TwseVsNav]
             ELSE [it EXCEPT !.price = <<rt>>, !.priceFrom = TwseRealtime]
    ELSE [it EXCEPT !.priceFrom = IF @ # NullLabel THEN @ ELSE MoneyDJ]

\* Lines 27-39: one turn of the overlay loop.
OverlayItem(it, map) ==
    IF it.code \in DOMAIN map
    THEN LET rt == map[it.code]
         IN  IF it.nav # Null /\ it.nav[1] # 0
             THEN [it EXCEPT !.price = <<rt>>, !.priceFrom = TwseRealtime,
                             !.premiumPct = <<PremiumOf(rt, it.nav[1])>>,
                             !.premiumFrom = TwseVsNav]
             ELSE [it EXCEPT !.price = <<rt>>, !.priceFrom = TwseRealtime]
    ELSE [it EXCEPT !.priceFrom = IF @ # NullLabel THEN @ ELSE MoneyDJ]

\* Faulty variant: the fallback forgets the note.
OverlayCatchNoNote(it) ==
    [it EXCEPT !.priceFrom = IF @ # NullLabel THEN @ ELSE MoneyDJ]

\* Lines 42-45: one turn of the catch block's loop.
OverlayCatch(it) ==
    [it EXCEPT !.priceFrom = IF @ # NullLabel THEN @ ELSE MoneyDJ,
               !.realtimePriceNote = FailedNote]

-----------------------------------------------------------------------------
\* Documents

\* Line 17.
MissingCodes ==
    [status |-> 400, ok |-> FALSE,
     error |-> "missing codes. e.g. ?codes=00713,00635U",
     message |-> NullLabel, items |-> <<>>]

\* Lines 53-59 (updatedAt, source and byCode, a view of items, left out).
Success(its) ==
    [status |-> 200, ok |-> TRUE, error |-> NullLabel, message |-> NullLabel,
     items |-> its]

\* Lines 61-64.
UpstreamError(msg) ==
    [status |-> 502, ok |-> FALSE, error |-> "upstream error", message |-> msg,
     items |-> <<>>]

\* Faulty variant: Promise.allSettled, which never rejects.
PromiseAllSettled(fs) ==
    IF \A i \in DOMAIN fs : fs[i] \in {"fulfilled", "rejected"}
    THEN "fulfilled" ELSE "pending"

\* Faulty variant: Promise.any / race, which resolves with the first fulfilment.
PromiseAny(fs) ==
    IF \E i \in DOMAIN fs : fs[i] = "fulfilled" THEN "fulfilled"
    ELSE IF \A i \in DOMAIN fs : fs[i] = "rejected" THEN "rejected"
    ELSE "pending"

\* Promise.all (line 21): rejected as soon as one promise is, fulfilled once
\* all are.
PromiseAll(fs) ==
    IF \E i \in DOMAIN fs : fs[i] = "rejected" THEN "rejected"
    ELSE IF \A i \in DOMAIN fs : fs[i] = "fulfilled" THEN "fulfilled"
    ELSE "pending"

-----------------------------------------------------------------------------
\* The invocation

RECURSIVE SeqsUpTo(_)
SeqsUpTo(n) ==
    IF n = 0 THEN {<<>>}
    ELSE LET shorter == SeqsUpTo(n - 1)
         IN  shorter \cup {Append(s, c) : s \in {t \in shorter : Len(t) = n - 1},
                                           c \in Chars}

\* req.query: no codes parameter, or a codes string of at most MaxLen
\* characters.
Queries ==
    {[has |-> FALSE, val |-> <<>>]} \cup
    {[has |-> TRUE, val |-> s] : s \in SeqsUpTo(MaxLen)}

NoQuery == [has |-> FALSE, val |-> <<"?">>]

Init ==
    /\ pc = "idle"
    /\ query = NoQuery
    /\ codes = <<>>
    /\ fetchState = <<>>
    /\ pages = <<>>
    /\ base = <<>>
    /\ items = <<>>
    /\ errors = <<>>
    /\ primaryCalls = 0
    /\ twseCalls = 0
    /\ twseState = "none"
    /\ twsePriceMap = EmptyMap
    /\ responses = <<>>

\* Lines 10-18: the request names no code.
HandlerMissingCodes(q) ==
    /\ pc = "idle"
    /\ ParseCodes(q) = <<>>
    /\ query' = q
    /\ codes' = <<>>
    /\ responses' = Append(responses, MissingCodes)
    /\ pc' = "done"
    /\ UNCHANGED <<fetchState, pages, base, items, errors, primaryCalls,
                   twseCalls, twseState, twsePriceMap>>

\* Lines 10-21: codes.map(fetchFromMoneyDJ) runs each call up to its fetch(),
\* and the handler waits on Promise.all.
HandlerStart(q) ==
    /\ pc = "idle"
    /\ ParseCodes(q) # <<>>
    /\ query' = q
    /\ codes' = ParseCodes(q)
    /\ fetchState' = [i \in DOMAIN codes' |-> "pending"]
    /\ pages' = [i \in DOMAIN codes' |-> NoPage]
    /\ base' = [i \in DOMAIN codes' |-> NoItem]
    /\ items' = [i \in DOMAIN codes' |-> NoItem]
    /\ errors' = [i \in DOMAIN codes' |-> NullLabel]
    /\ primaryCalls' = Len(codes')
    /\ pc' = "awaitAll"
    /\ UNCHANGED <<twseCalls, twseState, twsePriceMap, responses>>

\* The handler's continuation once fetchState' is known (lines 21-24 and
\* 60-64): nothing while Promise.all is pending or the handler is past it,
\* the 502 document when it rejects (with reason msg), the TWSE fetch when
\* it fulfils.
AfterSettle(msg) ==
    LET all == IF pc = "awaitAll" THEN PromiseAll(fetchState') ELSE "pending"
    IN  /\ pc' = CASE all = "rejected" -> "done"
                   [] all = "fulfilled" -> "awaitOverlay"
                   [] OTHER -> pc
        /\ responses' = IF all = "rejected"
                        THEN Append(responses, UpstreamError(msg))
                        ELSE responses
        /\ twseState' = IF all = "fulfilled" THEN "pending" ELSE twseState
        /\ twseCalls' = IF all = "fulfilled" THEN twseCalls + 1 ELSE twseCalls

\* Lines 135-147: fetch() rejects, or answers with a status that is not ok.
FetchFails(i, e) ==
    /\ fetchState[i] = "pending"
    /\ fetchState' = [fetchState EXCEPT ![i] = "rejected"]
    /\ errors' = [errors EXCEPT ![i] = e]
    /\ AfterSettle(e)
    /\ UNCHANGED <<query, codes, pages, base, items, primaryCalls,
                   twsePriceMap>>

\* Lines 135-148: the response is ok and its body is awaited.
FetchOk(i) ==
    /\ fetchState[i] = "pending"
    /\ fetchState' = [fetchState EXCEPT ![i] = "reading"]
    /\ UNCHANGED <<pc, query, codes, pages, base, items, errors, primaryCalls,
                   twseCalls, twseState, twsePriceMap, responses>>

\* Line 148: r.text() rejects.
BodyFails(i, e) ==
    /\ fetchState[i] = "reading"
    /\ fetchState' = [fetchState EXCEPT ![i] = "rejected"]
    /\ errors' = [errors EXCEPT ![i] = e]
    /\ AfterSettle(e)
    /\ UNCHANGED <<query, codes, pages, base, items, primaryCalls,
                   twsePriceMap>>

\* Lines 77-131: the body arrives and the record is built.
BodyArrives(i, page) ==
    /\ fetchState[i] = "reading"
    /\ fetchState' = [fetchState EXCEPT ![i] = "fulfilled"]
    /\ pages' = [pages EXCEPT ![i] = page]
    /\ base' = [base EXCEPT ![i] = fetchFromMoneyDJ(codes[i], page)]
    /\ items' = [items EXCEPT ![i] = fetchFromMoneyDJ(codes[i], page)]
    /\ AfterSettle(NullLabel)
    /\ UNCHANGED <<query, codes, errors, primaryCalls, twsePriceMap>>

\* Lines 24-46 and 48-59: the TWSE fetch fails; the catch block runs and the
\* success document is sent.
TwseFails(e) ==
    /\ pc = "awaitOverlay"
    /\ twseState = "pending"
    /\ twseState' = "failed"
    /\ items' = [i \in DOMAIN items |-> OverlayCatch(items[i])]
    /\ responses' = Append(responses, Success(items'))
    /\ pc' = "done"
    /\ UNCHANGED <<query, codes, fetchState, pages, base, errors,
                   primaryCalls, twseCalls, twsePriceMap>>

\* Lines 24-40 and 48-59: the TWSE fetch answers with the JSON body j; the
\* overlay loop runs and the success document is sent.
TwseAnswers(j) ==
    /\ pc = "awaitOverlay"
    /\ twseState = "pending"
    /\ twseState' = "ok"
    /\ twsePriceMap' = fetchTwseRealtimePrices(j)
    /\ items' = [i \in DOMAIN items |-> OverlayItem(items[i], twsePriceMap')]
    /\ responses' = Append(responses, Success(items'))
    /\ pc' = "done"
    /\ UNCHANGED <<query, codes, fetchState, pages, base, errors,
                   primaryCalls, twseCalls>>

Next ==
    \/ \E q \in Queries : HandlerMissingCodes(q)
    \/ \E q \in Queries : HandlerStart(q)
    \/ \E i \in DOMAIN fetchState, e \in FetchErrors : FetchFails(i, e)
    \/ \E i \in DOMAIN fetchState : FetchOk(i)
    \/ \E i \in DOMAIN fetchState, e \in BodyErrors : BodyFails(i, e)
    \/ \E i \in DOMAIN fetchState, page \in Pages : BodyArrives(i, page)
    \/ \E e \in TwseErrors : TwseFails(e)
    \/ \E j \in TwseReplies(codes) : TwseAnswers(j)

Spec == Init /\ [][Next]_vars

-----------------------------------------------------------------------------
\* Vocabulary of the properties

Pending(i) == fetchState[i] \in {"pending", "reading"}

Fulfilled(i) == fetchState[i] = "fulfilled"

Rejected(i) == fetchState[i] = "rejected"

Sent(status) == responses # <<>> /\ responses[Len(responses)].status = status

\* p (nullable) is round2(((price - nav) / nav) * 100) as the code's doubles
\* give it.
IsPremiumOf(p, price, nav) == p = <<PremiumOf(price, nav)>>

\* The comparison of line 113 does not find v more than 1 away from
\* round2(((price - nav) / nav) * 100).
NearPremiumOf(v, price, nav) == ~Diverges(v, PremiumOf(price, nav))

\* What the page of code i shows.
PagePrice(i) == pickNumber(pages[i].price)

PageNav(i) == pickNumber(pages[i].nav)

PagePremium(i) == pickNumber(pages[i].premium)

\* The computed premium of page i is defined.
HasComputed(i) == PagePrice(i) # Null /\ PageNav(i) # Null /\ PageNav(i)[1] # 0

\* The raw query holds nothing but commas and blanks (or is missing).
NamesNoCode(q) == ~q.has \/ \A k \in DOMAIN q.val : q.val[k] \in {",", " "}

-----------------------------------------------------------------------------
\* C1: once the primary fetch of any requested code has failed, the one and
\* only document of the request is the 502 "upstream error" document carrying
\* the message of a failed fetch; no success document and no list of records
\* is sent, whatever the other fetches did.
C1_PrimaryFailureIsFatal ==
    (\E i \in DOMAIN fetchState : Rejected(i)) =>
        /\ Len(responses) = 1
        /\ responses[1].status = 502
        /\ responses[1].ok = FALSE
        /\ responses[1].error = "upstream error"
        /\ responses[1].items = <<>>
        /\ \E i \in DOMAIN fetchState :
              Rejected(i) /\ responses[1].message = errors[i]
        /\ twseCalls = 0

\* One fetch failed after another had already delivered its record.
C1_Witness ==
    /\ Sent(502)
    /\ \E i, j \in DOMAIN fetchState : Rejected(i) /\ Fulfilled(j)

\* C2: when every primary fetch succeeded and the TWSE fetch failed, the
\* success document is sent and every record keeps the price, premiumPct and
\* premiumFrom the primary source produced, carries the failure note and has
\* priceFrom "MoneyDJ".
C2_OverlayFailureFallsBack ==
    twseState = "failed" =>
        /\ Len(responses) = 1
        /\ responses[1].status = 200
        /\ responses[1].ok
        /\ DOMAIN responses[1].items = DOMAIN codes
        /\ \A i \in DOMAIN codes :
              LET it == responses[1].items[i]
              IN  /\ Fulfilled(i)
                  /\ it.code = codes[i]
                  /\ it.price = base[i].price
                  /\ it.nav = base[i].nav
                  /\ it.premiumPct = base[i].premiumPct
                  /\ it.premiumFrom = base[i].premiumFrom
                  /\ it.priceFrom = MoneyDJ
                  /\ it.realtimePriceNote = FailedNote

\* A two-code batch whose overlay failed, one record without a page price.
C2_Witness ==
    /\ twseState = "failed"
    /\ Sent(200)
    /\ Len(codes) = 2
    /\ \E i, j \in DOMAIN codes :
          /\ base[i].priceFrom = NullLabel
          /\ base[j].premiumFrom = Parsed

\* C3: after a successful overlay, a record whose code has a usable realtime
\* price has that price, priceFrom "TWSE realtime" and, if its NAV is non-null
\* and nonzero, premiumPct = round2((rt - nav)/nav*100) with the TWSE-vs-NAV
\* label, whatever the primary premium was; a record whose code has none
\* keeps its primary price, premiumPct and premiumFrom.
C3_OverlayPrecedence ==
    twseState = "ok" =>
        /\ Sent(200)
        /\ \A i \in DOMAIN codes :
              LET it == responses[1].items[i]
              IN  IF codes[i] \in DOMAIN twsePriceMap
                  THEN /\ it.price = <<twsePriceMap[codes[i]]>>
                       /\ it.priceFrom = TwseRealtime
                       /\ (base[i].nav # Null /\ base[i].nav[1] # 0) =>
                             /\ IsPremiumOf(it.premiumPct,
                                            twsePriceMap[codes[i]],
                                            base[i].nav[1])
                             /\ it.premiumFrom = TwseVsNav
                  ELSE /\ it.price = base[i].price
                       /\ it.premiumPct = base[i].premiumPct
                       /\ it.premiumFrom = base[i].premiumFrom

\* One record overridden although its primary premium was the page's own
\* (realtime 200.01 on a NAV of 200.00: premium 0), and another one whose
\* code the quotes do not cover.
C3_Witness ==
    /\ twseState = "ok"
    /\ Sent(200)
    /\ \E i, j \in DOMAIN codes :
          /\ codes[i] \in DOMAIN twsePriceMap
          /\ base[i].premiumFrom = Parsed
          /\ base[i].nav = <<20000>>
          /\ items[i].price = <<20001>>
          /\ items[i].premiumPct = <<0>>
          /\ codes[j] \notin DOMAIN twsePriceMap
          /\ base[j].premiumPct # Null

\* C4 as stated: in every record of a success document with price and nav
\* non-null and nav nonzero, premiumPct = round2((price - nav)/nav*100).
C4_Original ==
    Sent(200) =>
        \A i \in DOMAIN codes :
            LET it == responses[1].items[i]
            IN  (it.price # Null /\ it.nav # Null /\ it.nav[1] # 0) =>
                    IsPremiumOf(it.premiumPct, it.price[1], it.nav[1])

\* C4 as amended: ... premiumPct is round2((price - nav)/nav*100) or, only
\* when the price is the primary one and the page showed a premium that the
\* reconciler's comparison did not find more than 1.0 away from that value,
\* the premium the page showed.
C4_PremiumConsistent ==
    Sent(200) =>
        \A i \in DOMAIN codes :
            LET it == responses[1].items[i]
            IN  (it.price # Null /\ it.nav # Null /\ it.nav[1] # 0) =>
                    \/ IsPremiumOf(it.premiumPct, it.price[1], it.nav[1])
                    \/ /\ it.priceFrom = MoneyDJ
                       /\ PagePremium(i) # Null
                       /\ it.premiumPct = PagePremium(i)
                       /\ NearPremiumOf(PagePremium(i)[1], it.price[1],
                                        it.nav[1])

\* A success document with a recomputed overlay premium next to a kept page
\* premium (-17.94) that is not the computed one (-16.94).
C4_Witness ==
    /\ Sent(200)
    /\ \E i, j \in DOMAIN codes :
          /\ items[i].premiumFrom = TwseVsNav
          /\ items[j].premiumFrom = Parsed
          /\ items[j].premiumPct = <<-1794>>
          /\ items[j].price # Null /\ items[j].nav # Null
          /\ items[j].nav[1] # 0
          /\ ~IsPremiumOf(items[j].premiumPct, items[j].price[1],
                          items[j].nav[1])

\* C5: in the record built from a page whose computed premium is defined, if
\* no premium was parsed or the parsed one is more than 1.0 percentage point
\* away from the computed one (abs(parsed - computed) > 1.0 as the code
\* evaluates it), premiumPct is the computed value and premiumFrom is the
\* computed label.
C5_ComputedPremiumAdopted ==
    \A i \in DOMAIN codes :
        (/\ Fulfilled(i)
         /\ HasComputed(i)
         /\ \/ PagePremium(i) = Null
            \/ ~NearPremiumOf(PagePremium(i)[1], PagePrice(i)[1],
                              PageNav(i)[1]))
        => /\ IsPremiumOf(base[i].premiumPct, PagePrice(i)[1], PageNav(i)[1])
           /\ base[i].premiumFrom = Computed

\* A page whose premium (-15.94, computed -16.94) the comparison found
\* diverging and was replaced, and a page that shows none.
C5_Witness ==
    \E i, j \in DOMAIN codes :
        /\ Fulfilled(i) /\ Fulfilled(j)
        /\ HasComputed(i) /\ HasComputed(j)
        /\ PagePremium(i) = <<-1594>>
        /\ base[i].premiumPct = <<-1694>>
        /\ PagePremium(j) = Null
        /\ base[j].premiumFrom = Computed

\* C6 as stated: in the record built from a page, a parsed premium that the
\* divergence rule does not override (no computed value, or within 1.0 of
\* it, equality included) is premiumPct, with the parsed label.
C6_Original ==
    \A i \in DOMAIN codes :
        (/\ Fulfilled(i)
         /\ PagePremium(i) # Null
         /\ \/ ~HasComputed(i)
            \/ NearPremiumOf(PagePremium(i)[1], PagePrice(i)[1],
                             PageNav(i)[1]))
        => /\ base[i].premiumPct = PagePremium(i)
           /\ base[i].premiumFrom = Parsed

\* C7 as stated: a code whose page has no parseable NAV ends with nav = null
\* and premiumPct = null, whatever else the page shows and whatever the
\* overlay did, and with a price whenever one was found.
C7_Original ==
    Sent(200) =>
        \A i \in DOMAIN codes :
            LET it == responses[1].items[i]
            IN  PageNav(i) = Null =>
                    /\ it.nav = Null
                    /\ it.premiumPct = Null
                    /\ (PagePrice(i) # Null => it.price # Null)

\* C7 as amended: ... ends with nav = null and with premiumPct null unless
\* the page shows a source-reported premium, which is then premiumPct (with
\* the parsed label); nothing is computed; price as stated.
C7_MissingNav ==
    Sent(200) =>
        \A i \in DOMAIN codes :
            LET it == responses[1].items[i]
            IN  PageNav(i) = Null =>
                    /\ it.nav = Null
                    /\ it.premiumPct = PagePremium(i)
                    /\ it.premiumFrom =
                          (IF PagePremium(i) = Null THEN NullLabel ELSE Parsed)
                    /\ (PagePrice(i) # Null => it.price # Null)
                    /\ (twseState = "ok" /\ codes[i] \in DOMAIN twsePriceMap
                           => it.price # Null)

\* A page without NAV that shows a premium, its price overridden by the
\* overlay, next to a page without NAV and without premium.
C7_Witness ==
    /\ Sent(200)
    /\ twseState = "ok"
    /\ \E i, j \in DOMAIN codes :
          /\ PageNav(i) = Null /\ PagePremium(i) # Null
          /\ PagePrice(i) # Null
          /\ codes[i] \in DOMAIN twsePriceMap
          /\ PageNav(j) = Null /\ PagePremium(j) = Null
          /\ items[j].price # Null

\* C8: a request whose code list is missing or empty after splitting,
\* trimming and dropping empty tokens ends in the 400 document, and no
\* MoneyDJ or TWSE fetch is ever issued for it.
C8_EmptyListRejected ==
    (pc # "idle" /\ NamesNoCode(query)) =>
        /\ pc = "done"
        /\ Len(responses) = 1
        /\ responses[1].status = 400
        /\ primaryCalls = 0
        /\ twseCalls = 0
        /\ twseState = "none"

\* A query made of separators only has been answered.
C8_Witness ==
    /\ pc = "done"
    /\ query.has
    /\ Len(query.val) >= 2
    /\ \E k \in DOMAIN query.val : query.val[k] = ","
    /\ \E k \in DOMAIN query.val : query.val[k] = " "
    /\ NamesNoCode(query)
    /\ Sent(400)

\* C9: the TWSE fetch is issued at most once, and in no state has it been
\* issued while a per-code extraction is still pending (or has failed).
C9_OverlayAfterAllExtractions ==
    /\ twseCalls <= 1
    /\ (twseCalls = 0) = (twseState = "none")
    /\ twseCalls > 0 => \A i \in DOMAIN fetchState : Fulfilled(i)

\* The TWSE fetch of a two-code batch is in flight.
C9_Witness ==
    /\ twseState = "pending"
    /\ twseCalls = 1
    /\ Len(codes) = 2

\* C10 as stated: a document, success or error, is sent only when no
\* per-code extraction is still pending.
C10_Original ==
    responses # <<>> => \A i \in DOMAIN fetchState : ~Pending(i)

\* C10 as amended: a success document is sent only when every per-code
\* extraction has completed; the error document is sent as soon as one
\* extraction fails, others possibly still pending, and it stays the only
\* document of the request.
C10_ResponseTiming ==
    /\ Len(responses) <= 1
    /\ Sent(200) => \A i \in DOMAIN fetchState : Fulfilled(i)
    /\ Sent(502) => \E i \in DOMAIN fetchState : Rejected(i)
    /\ (\E i \in DOMAIN fetchState : Rejected(i)) => Sent(502)

\* The error document is out while another extraction is still pending.
C10_Witness ==
    /\ Sent(502)
    /\ \E i, j \in DOMAIN fetchState : Rejected(i) /\ Pending(j)

====
